---- MODULE Spec2Model ----
(***************************************************************************)
(* A model of cpc_api/api.py: the CPCApi client, its class-level memoize   *)
(* cache, the Balloting/Vote object graph built by parliamentarian_votes,  *)
(* and the search_parliamentarians facade over the fuzzy matcher.          *)
(*                                                                         *)
(* Python objects are modelled as heap cells: a client, a Balloting or a   *)
(* Vote is identified by its index in the sequence that allocated it, so   *)
(* "the identical instance" is equality of indexes.  Python's None is the  *)
(* empty sequence << >> where it stands for an optional integer (limit),   *)
(* and the string NoneStr where it stands for an optional string.          *)
(***************************************************************************)
EXTENDS Integers, Sequences, FiniteSets, TLC

VARIABLES
    clients,             \* heap of CPCApi objects: <<[ptype, legislature], ...>>
    dct_all_ballotings,  \* per client: numero -> index of the interned Balloting
    ballotings,          \* heap of every Balloting object ever constructed
    votes,               \* heap of every Vote object ever constructed
    cache,               \* CPCApi.cache: key -> [val, by] (by: the function that stored it)
    nFetch,              \* number of requests.get calls issued so far
    ran,                 \* per <<client, operation, args, kargs>>: runs of the wrapped body
    last,                \* the call that just returned or raised
    threads              \* the calls of parliamentarian_votes in progress on threads

vars == <<clients, dct_all_ballotings, ballotings, votes, cache, nFetch, ran, last, threads>>

-----------------------------------------------------------------------------
(* Bounds of the model *)

MaxClients == 2     \* CPCApi objects constructed
MaxFetch == 2       \* requests.get calls
MaxRuns == 2        \* runs of memoized bodies
MaxVotes == 2       \* Vote objects constructed
MaxPayload == 2     \* entries of one fetched vote history
MaxRoster == 2      \* records of one fetched roster
MaxLimit == 2       \* largest value passed as limit

-----------------------------------------------------------------------------
(* Input domains *)

NoneStr == "<None>"

PTypes == {"depute", "senateur"}
Legislatures == {"2007-2012", "2012-2017", "2017-2022", NoneStr}
PTypeInputs == PTypes \cup {"ministre"}
LegislatureInputs == Legislatures \cup {"1789-1791"}

\* strings used as slugs and as queries
Strs == {"a", "1a"}
\* balloting identifiers (scrutin.numero)
Numeros == {1, 11}
Titres == {"t1", "t2"}
Noms == {"Cope", "Larcher"}

\* one entry of data["votes"], already unwrapped from its "vote" key
VoteDicts(titres) ==
    [scrutin : [numero : Numeros, titre : titres, sort : {"adopte"}],
     parlementaire_slug : Strs,
     position : {"pour"}]

RECURSIVE SeqsUpTo(_, _)
SeqsUpTo(S, n) ==
    IF n = 0 THEN {<< >>}
    ELSE LET shorter == SeqsUpTo(S, n - 1)
         IN  shorter \cup {Append(s, x) : s \in {t \in shorter : Len(t) = n - 1}, x \in S}

\* the vote histories the remote service may answer with
VotePayloads(titres) == SeqsUpTo(VoteDicts(titres), MaxPayload)

-----------------------------------------------------------------------------
(* Python values returned by the operations *)

NoValue == [kind |-> "none"]
ParliamentarianObj(dict_parl, api) ==
    [kind |-> "Parliamentarian", slug |-> dict_parl.slug, nom |-> dict_parl.nom, api |-> api]
ListObj(items) == [kind |-> "list", items |-> items]
TupleObj(rec, score) == [kind |-> "tuple", rec |-> rec, score |-> score]
NdArray(slug_name, pixels) == [kind |-> "ndarray", slug |-> slug_name, pixels |-> pixels]
DictObj(q, page) == [kind |-> "dict", q |-> q, page |-> page]

-----------------------------------------------------------------------------
(* memoize *)

\* kargs is the sequence of (name, value) items in the order the caller
\* wrote them
Items(kargs) == {kargs[i] : i \in DOMAIN kargs}

\* the keyword names the operations take, in the order of Python's string
\* comparison
KeywordOrder == <<"limit", "no_score", "p_slug", "pixels", "slug_name">>

Rank(name) == CHOOSE i \in DOMAIN KeywordOrder : KeywordOrder[i] = name

\* a key built from the items in the order of the call
Unsorted(kargs) == kargs

\* tuple(sorted(kargs.items())): the names of a call are distinct, so the
\* items are ordered by name
Sorted(kargs) ==
    [i \in DOMAIN kargs |->
        CHOOSE item \in Items(kargs) :
            Cardinality({other \in Items(kargs) : Rank(other[1]) < Rank(item[1])}) = i - 1]

\* the value bound to parameter name: the keyword argument if given, else
\* the default of the signature
Bound(kargs, name, default) ==
    IF \E item \in Items(kargs) : item[1] = name
    THEN (CHOOSE item \in Items(kargs) : item[1] = name)[2]
    ELSE default

\* a key built from the arguments after self
MemoKeyWithoutSelf(f, self, args, kargs) == <<args, Sorted(kargs)>>

\* k = (args, tuple(sorted(kargs.items()))): args[0] is self, the wrapped
\* function f is not part of the key
MemoKey(f, self, args, kargs) == <<self, args, Sorted(kargs)>>

\* k in CPCApi.cache
Cached(store, f, self, args, kargs) == MemoKey(f, self, args, kargs) \in DOMAIN store

CallId(f, self, args, kargs) == <<self, f, args, kargs>>

RanCount(runs, id) == IF id \in DOMAIN runs THEN runs[id] ELSE 0

RECURSIVE SumRuns(_, _)
SumRuns(runs, ids) ==
    IF ids = {} THEN 0
    ELSE LET id == CHOOSE x \in ids : TRUE
         IN  runs[id] + SumRuns(runs, ids \ {id})

\* wrapped bodies run so far
TotalRuns == SumRuns(ran, DOMAIN ran)

\* f(*args, **kargs) is entered: one more run of the wrapped body
Entered(runs, f, self, args, kargs) ==
    (CallId(f, self, args, kargs) :> (RanCount(runs, CallId(f, self, args, kargs)) + 1)) @@ runs

\* CPCApi.cache[k] = value
Stored(store, f, self, args, kargs, value) ==
    (MemoKey(f, self, args, kargs) :> [val |-> value, by |-> f]) @@ store

\* what the caller of aux observes: whether f was entered, the value returned
\* or the error raised, the fetches the call issued.  extracted is what the
\* matcher answered when the call ran it, data the vote history the fetch
\* answered when the call fetched one (both empty otherwise).
Outcome(f, self, args, kargs, entered, outcome, value, fetches) ==
    [op |-> f, self |-> self, args |-> args, kargs |-> kargs, ran |-> entered,
     outcome |-> outcome, result |-> value, fetches |-> fetches, extracted |-> << >>, data |-> << >>]

\* the cache-hit branch of aux: return CPCApi.cache[k], nothing else changes
MemoHit(f, self, args, kargs) ==
    /\ Cached(cache, f, self, args, kargs)
    /\ last' = Outcome(f, self, args, kargs, FALSE, "return",
                       cache[MemoKey(f, self, args, kargs)].val, 0)
    /\ UNCHANGED <<clients, dct_all_ballotings, ballotings, votes, cache, nFetch, ran, threads>>

\* the guard of the cache-miss branch of aux, within the bounds of the model
MemoMiss(f, self, args, kargs, fetches) ==
    /\ ~Cached(cache, f, self, args, kargs)
    /\ nFetch + fetches <= MaxFetch
    /\ TotalRuns < MaxRuns

\* the cache-miss branch of aux when f returns value after so many fetches:
\* store it, return it
MemoStore(f, self, args, kargs, value, fetches) ==
    /\ cache' = Stored(cache, f, self, args, kargs, value)
    /\ nFetch' = nFetch + fetches
    /\ ran' = Entered(ran, f, self, args, kargs)
    /\ last' = Outcome(f, self, args, kargs, TRUE, "return", value, fetches)

\* an aux that catches the error of f and stores None under the key
AfterRaiseStoresNone(store, f, self, args, kargs) == Stored(store, f, self, args, kargs, NoValue)

\* the cache after f raised inside CPCApi.cache[k] = f(*args, **kargs): the
\* assignment never happens
AfterRaise(store, f, self, args, kargs) == store

\* the cache-miss branch of aux when f raises: the error reaches the caller
MemoRaise(f, self, args, kargs, outcome, fetches) ==
    /\ cache' = AfterRaise(cache, f, self, args, kargs)
    /\ nFetch' = nFetch + fetches
    /\ ran' = Entered(ran, f, self, args, kargs)
    /\ last' = Outcome(f, self, args, kargs, TRUE, outcome, NoValue, fetches)

-----------------------------------------------------------------------------
(* CPCApi.__init__ *)

ValidConfig(ptype, legislature) == ptype \in PTypes /\ legislature \in Legislatures

Construct(ptype, legislature) ==
    /\ Len(clients) < MaxClients
    /\ IF ValidConfig(ptype, legislature)
       THEN /\ clients' = Append(clients, [ptype |-> ptype, legislature |-> legislature])
            /\ dct_all_ballotings' = Append(dct_all_ballotings, << >>)
            /\ last' = [op |-> "__init__", self |-> Len(clients) + 1, args |-> <<ptype, legislature>>,
                        kargs |-> << >>, ran |-> TRUE, outcome |-> "return", result |-> NoValue,
                        fetches |-> 0, extracted |-> << >>, data |-> << >>]
       ELSE /\ last' = [op |-> "__init__", self |-> 0, args |-> <<ptype, legislature>>,
                        kargs |-> << >>, ran |-> TRUE, outcome |-> "AssertionError",
                        result |-> NoValue, fetches |-> 0, extracted |-> << >>, data |-> << >>]
            /\ UNCHANGED <<clients, dct_all_ballotings>>
    /\ UNCHANGED <<ballotings, votes, cache, nFetch, ran, threads>>

\* a synthese without its check of month and legislature
SynthesisAlwaysAllowed(month, legislature) == TRUE

\* the negation of the condition under which synthese raises
SynthesisAllowed(month, legislature) == ~(month = NoneStr /\ legislature = "2012-2017")

\* CPCApi.synthese(month), not memoized; rosters are the lists the fetch may
\* answer with, returned as plain dicts
Synthese(self, month, rosters) ==
    /\ self \in DOMAIN clients
    /\ IF SynthesisAllowed(month, clients[self].legislature)
       THEN /\ nFetch < MaxFetch
            /\ nFetch' = nFetch + 1
            /\ \E roster \in rosters :
                  last' = [op |-> "synthese", self |-> self, args |-> <<month>>, kargs |-> << >>,
                           ran |-> TRUE, outcome |-> "return", result |-> ListObj(roster),
                           fetches |-> 1, extracted |-> << >>, data |-> << >>]
       ELSE /\ last' = [op |-> "synthese", self |-> self, args |-> <<month>>, kargs |-> << >>,
                        ran |-> TRUE, outcome |-> "AssertionError", result |-> NoValue,
                        fetches |-> 0, extracted |-> << >>, data |-> << >>]
            /\ UNCHANGED nFetch
    /\ UNCHANGED <<clients, dct_all_ballotings, ballotings, votes, cache, ran, threads>>

-----------------------------------------------------------------------------
(* Balloting and Vote *)

\* obj has an attribute (a dict has a key) of that name
Has(obj, name) == name \in DOMAIN obj

\* Balloting.__init__: self.__dict__.update(dct_balloting), whatever keys the
\* payload has, then an empty set of votes
BallotingInit(dct_balloting) == [set_votes |-> {}] @@ dct_balloting

\* Vote.__hash__: hash(f"{self.number_vote}{self.parlementaire_slug}")
VoteHash(vote) == ToString(vote.number_vote) \o vote.parlementaire_slug

\* a Vote.__eq__ that compares the composite key, which the class lacks
VoteEqByKey(heap, v, w) ==
    /\ heap[v].number_vote = heap[w].number_vote
    /\ heap[v].parlementaire_slug = heap[w].parlementaire_slug

\* Vote defines no __eq__: two Vote objects are equal only if they are the
\* same object.  v and w are indexes in the heap of votes.
VoteEq(heap, v, w) == v = w

\* set.add: v is dropped iff an element with the same hash is equal to it
PySetAdd(heap, set, v) ==
    IF \E w \in set : VoteHash(heap[w]) = VoteHash(heap[v]) /\ VoteEq(heap, w, v)
    THEN set
    ELSE set \cup {v}

\* Balloting.add_vote on the Balloting at index b
AddVote(heapB, heapV, b, v) ==
    [heapB EXCEPT ![b].set_votes = PySetAdd(heapV, @, v)]

\* a lookup that ignores the interned Balloting
DictGetFresh(dct, numero, fresh) == fresh

\* self.dct_all_ballotings.get(numero, fresh): the interned index if there is
\* one, else the index of the Balloting just constructed
DictGet(dct, numero, fresh) == IF numero \in DOMAIN dct THEN dct[numero] ELSE fresh

\* self.dct_all_ballotings[numero] = b
DictSet(dct, numero, b) == (numero :> b) @@ dct

\* Vote.__init__ up to the registration: self.__dict__.update(dct_vote),
\* whatever keys the payload has, then the Balloting and its numero as
\* number_vote
VoteInit(dct_vote, heapB, b) ==
    [balloting |-> b, number_vote |-> heapB[b].numero] @@ dct_vote

\* the state a call of parliamentarian_votes starts its loop in: the two
\* heaps, the client (self), its interning map, an empty lst_votes
LoopStart(heapB, heapV, dct, self) ==
    [ballotings |-> heapB, votes |-> heapV, dct |-> dct, self |-> self,
     lst |-> << >>, outcome |-> "return"]

\* one iteration of the loop of parliamentarian_votes.  st.outcome becomes
\* the error the iteration raises: KeyError from dict_vote["scrutin"] or
\* dict_balloting["numero"], before any Balloting is constructed;
\* AttributeError from Vote.__hash__ inside add_vote, after the Balloting was
\* bound in the interning map (the Vote object is then unreachable and is
\* not kept in the heap).  made_by is not an attribute of Vote: it records
\* the client whose call built the object.
RecordVote(st, dict_vote) ==
    IF ~Has(dict_vote, "scrutin") THEN [st EXCEPT !.outcome = "KeyError"]
    ELSE
    LET dict_balloting == dict_vote.scrutin
    IN  IF ~Has(dict_balloting, "numero") THEN [st EXCEPT !.outcome = "KeyError"]
        ELSE
        LET heapB1 == Append(st.ballotings, BallotingInit(dict_balloting))
            balloting == DictGet(st.dct, dict_balloting.numero, Len(heapB1))
            dct1 == DictSet(st.dct, dict_balloting.numero, balloting)
            vote == [made_by |-> st.self] @@ VoteInit(dict_vote, heapB1, balloting)
            heapV1 == Append(st.votes, vote)
            vote_obj == Len(heapV1)
        IN  IF ~Has(vote, "parlementaire_slug")
            THEN [st EXCEPT !.ballotings = heapB1, !.dct = dct1,
                            !.outcome = "AttributeError"]
            ELSE [ballotings |-> AddVote(heapB1, heapV1, balloting, vote_obj),
                  votes |-> heapV1,
                  dct |-> dct1,
                  self |-> st.self,
                  lst |-> Append(st.lst, vote_obj),
                  outcome |-> "return"]

\* a loop wrapped in a handler that restores the state it started in
LoopRolledBack(start, st) ==
    IF st.outcome = "return" THEN st ELSE [start EXCEPT !.outcome = st.outcome]

\* what the loop leaves behind, started in start and ended in st: nothing
\* catches an error, what the iterations did stays done
LoopEnd(start, st) == st

\* the loop over data["votes"], from entry i on; an error ends it
RECURSIVE RecordVotes(_, _, _)
RecordVotes(st, data, i) ==
    IF i > Len(data) \/ st.outcome # "return" THEN st
    ELSE RecordVotes(RecordVote(st, data[i]), data, i + 1)

-----------------------------------------------------------------------------
(* the memoized operations of CPCApi *)

NoKargs == << >>

\* CPCApi.parliamentarian_votes called with p_slug as its one positional
\* argument (args) or as its one keyword argument (kargs); payloads are the
\* vote histories the fetch may answer with
ParliamentarianVotesCall(self, args, kargs, payloads) ==
    /\ self \in DOMAIN clients
    /\ \/ MemoHit("parliamentarian_votes", self, args, kargs)
       \/ /\ MemoMiss("parliamentarian_votes", self, args, kargs, 1)
          /\ \E data \in payloads :
                /\ Len(votes) + Len(data) <= MaxVotes
                /\ LET start == LoopStart(ballotings, votes, dct_all_ballotings[self], self)
                       st == LoopEnd(start, RecordVotes(start, data, 1))
                       value == IF st.outcome = "return" THEN ListObj(st.lst) ELSE NoValue
                   IN  /\ ballotings' = st.ballotings
                       /\ votes' = st.votes
                       /\ dct_all_ballotings' = [dct_all_ballotings EXCEPT ![self] = st.dct]
                       /\ cache' = IF st.outcome = "return"
                                   THEN Stored(cache, "parliamentarian_votes", self, args,
                                               kargs, value)
                                   ELSE cache
                       /\ nFetch' = nFetch + 1
                       /\ ran' = Entered(ran, "parliamentarian_votes", self, args, kargs)
                       /\ last' = [Outcome("parliamentarian_votes", self, args, kargs,
                                           TRUE, st.outcome, value, 1)
                                      EXCEPT !.data = data]
          /\ UNCHANGED <<clients, threads>>

\* self.parliamentarian_votes(p_slug), as Parliamentarian.get_votes calls it
ParliamentarianVotes(self, p_slug, payloads) ==
    ParliamentarianVotesCall(self, <<p_slug>>, NoKargs, payloads)

\* self.parliamentarian_votes(p_slug=p_slug)
ParliamentarianVotesByName(self, p_slug, payloads) ==
    ParliamentarianVotesCall(self, << >>, <<<<"p_slug", p_slug>>>>, payloads)

\* CPCApi.parliamentarian(slug_name); noms are the names the fetched record
\* may carry
Parliamentarian(self, slug_name, noms) ==
    /\ self \in DOMAIN clients
    /\ \/ MemoHit("parliamentarian", self, <<slug_name>>, NoKargs)
       \/ /\ MemoMiss("parliamentarian", self, <<slug_name>>, NoKargs, 1)
          /\ \E nom \in noms :
                MemoStore("parliamentarian", self, <<slug_name>>, NoKargs,
                          ParliamentarianObj([slug |-> slug_name, nom |-> nom], self), 1)
          /\ UNCHANGED <<clients, dct_all_ballotings, ballotings, votes, threads>>

\* the default of pixels in the signature of picture
PixelsDefault == "60"

\* CPCApi.picture called with slug_name as its one positional argument
\* (args) or by name, and pixels by name or left at its default
PictureCall(self, args, kargs) ==
    LET slug_name == IF args = << >> THEN Bound(kargs, "slug_name", NoneStr) ELSE args[1]
        pixels == Bound(kargs, "pixels", PixelsDefault)
    IN  /\ self \in DOMAIN clients
        /\ \/ MemoHit("picture", self, args, kargs)
           \/ /\ MemoMiss("picture", self, args, kargs, 1)
              /\ MemoStore("picture", self, args, kargs, NdArray(slug_name, pixels), 1)
              /\ UNCHANGED <<clients, dct_all_ballotings, ballotings, votes, threads>>

\* self.picture(slug_name)
Picture(self, slug_name) == PictureCall(self, <<slug_name>>, NoKargs)

\* CPCApi.search(q), page left at its default
Search(self, q) ==
    /\ self \in DOMAIN clients
    /\ \/ MemoHit("search", self, <<q>>, NoKargs)
       \/ /\ MemoMiss("search", self, <<q>>, NoKargs, 1)
          /\ MemoStore("search", self, <<q>>, NoKargs, DictObj(q, 1), 1)
          /\ UNCHANGED <<clients, dct_all_ballotings, ballotings, votes, threads>>

\* the list comprehension of parlementarians over the fetched roster
RosterObj(self, roster) ==
    ListObj([i \in DOMAIN roster |->
                ParliamentarianObj([slug |-> roster[i], nom |-> roster[i]], self)])

\* CPCApi.parlementarians(), active left at its default; rosters are the
\* lists of names the fetch may answer with
Parlementarians(self, rosters) ==
    /\ self \in DOMAIN clients
    /\ \/ MemoHit("parlementarians", self, << >>, NoKargs)
       \/ /\ MemoMiss("parlementarians", self, << >>, NoKargs, 1)
          /\ \E roster \in rosters :
                MemoStore("parlementarians", self, << >>, NoKargs, RosterObj(self, roster), 1)
          /\ UNCHANGED <<clients, dct_all_ballotings, ballotings, votes, threads>>

-----------------------------------------------------------------------------
(* search_parliamentarians *)

None == << >>
Some(k) == <<k>>

\* limit or 1
LimitOr1(limit) == IF limit = None \/ limit[1] = 0 THEN 1 ELSE limit[1]

Min(a, b) == IF a <= b THEN a ELSE b

Scores == {50, 100}

\* extractBests(q, choices, processor, limit): the matcher is a library.  It
\* scores every choice, drops none (score_cutoff is left at 0) and answers
\* the limit best as (choice, score) pairs in descending order of score; which
\* choices score higher is left open.
ExtractBests(choices, limit) ==
    UNION {
        {[i \in 1..k |-> TupleObj(choices[p[i]], sc[i])] :
            p \in {f \in [1..k -> DOMAIN choices] : \A i, j \in 1..k : i # j => f[i] # f[j]},
            sc \in {g \in [1..k -> Scores] : \A i \in 1..k : i < k => g[i] >= g[i + 1]}}
        : k \in {Min(limit, Len(choices))}}

\* the score option the code would use if scores were kept by default
KeepScoreDefault == FALSE

\* the default of no_score in the signature of search_parliamentarians
NoScoreDefault == TRUE

\* search_parliamentarians without the limit is None branch
SearchShapeAlwaysList(extracted, limit, no_score) ==
    [outcome |-> "return", value |-> ListObj(extracted)]

\* an indexing that answers None on an empty list instead of raising
Index0OrNone(extracted) ==
    IF Len(extracted) = 0
    THEN [outcome |-> "return", value |-> NoValue]
    ELSE [outcome |-> "return", value |-> extracted[1]]

\* extracted[0]: IndexError on an empty list
Index0(extracted) ==
    IF Len(extracted) = 0
    THEN [outcome |-> "IndexError", value |-> NoValue]
    ELSE [outcome |-> "return", value |-> extracted[1]]

\* the tail of search_parliamentarians: the shape of what is returned
SearchShape(extracted, limit, no_score) ==
    IF limit = None
    THEN LET first == Index0(extracted)
         IN  IF first.value = NoValue
             THEN first
             ELSE IF no_score
                  THEN [outcome |-> "return", value |-> first.value.rec]
                  ELSE first
    ELSE IF no_score
         THEN [outcome |-> "return",
               value |-> ListObj([i \in DOMAIN extracted |-> extracted[i].rec])]
         ELSE [outcome |-> "return", value |-> ListObj(extracted)]

\* CPCApi.search_parliamentarians(q, **kargs) with field left at its default;
\* kargs gives limit and no_score when the caller names them.  The body calls
\* self.parlementarians(), itself memoized, then the matcher.
SearchParliamentarians(self, q, kargs, rosters) ==
    /\ self \in DOMAIN clients
    /\ \/ MemoHit("search_parliamentarians", self, <<q>>, kargs)
       \/ LET limit == Bound(kargs, "limit", None)
              no_score == Bound(kargs, "no_score", NoScoreDefault)
              listed == Cached(cache, "parlementarians", self, << >>, NoKargs)
              fetches == IF listed THEN 0 ELSE 1
          IN  /\ MemoMiss("search_parliamentarians", self, <<q>>, kargs, fetches)
              /\ TotalRuns + fetches < MaxRuns
              /\ \E roster \in IF listed
                               THEN {cache[MemoKey("parlementarians", self, << >>, NoKargs)].val}
                               ELSE {RosterObj(self, r) : r \in rosters} :
                 \E extracted \in ExtractBests(roster.items, LimitOr1(limit)) :
                    LET cache1 == IF listed THEN cache
                                  ELSE Stored(cache, "parlementarians", self, << >>, NoKargs, roster)
                        ran1 == IF listed THEN ran
                                ELSE Entered(ran, "parlementarians", self, << >>, NoKargs)
                        shaped == SearchShape(extracted, limit, no_score)
                    IN  /\ cache' = IF shaped.outcome = "return"
                                    THEN Stored(cache1, "search_parliamentarians", self, <<q>>,
                                                kargs, shaped.value)
                                    ELSE cache1
                        /\ ran' = Entered(ran1, "search_parliamentarians", self, <<q>>, kargs)
                        /\ nFetch' = nFetch + fetches
                        /\ last' = [Outcome("search_parliamentarians", self, <<q>>, kargs, TRUE,
                                            shaped.outcome, shaped.value, fetches)
                                       EXCEPT !.extracted = extracted]
              /\ UNCHANGED <<clients, dct_all_ballotings, ballotings, votes, threads>>

-----------------------------------------------------------------------------
(* Specifications *)

\* the two threads that call parliamentarian_votes at once
Threads == {"A", "B"}

\* a thread that has not called yet
Idle ==
    [pc |-> "idle", self |-> 0, p_slug |-> "", data |-> << >>, i |-> 0, lst |-> << >>,
     found |-> 0]

\* no call in progress; callers do not serialise anything (locking) and
\* nobody holds their lock (holder)
NoThreads == [locking |-> FALSE, holder |-> "", of |-> [t \in Threads |-> Idle]]

Init ==
    /\ threads = NoThreads
    /\ clients = << >>
    /\ dct_all_ballotings = << >>
    /\ ballotings = << >>
    /\ votes = << >>
    /\ cache = << >>
    /\ nFetch = 0
    /\ ran = << >>
    /\ last = [op |-> "start", self |-> 0, args |-> << >>, kargs |-> << >>, ran |-> FALSE,
               outcome |-> "return", result |-> NoValue, fetches |-> 0, extracted |-> << >>, data |-> << >>]

\* vote histories whose ballotings all carry the same title
PlainPayloads == VotePayloads({"t1"})

\* the one configuration the tests of the votes use
TestConfig == Construct("depute", "2017-2022")

\* construction, vote histories, and parliamentarian on the same keys
NextVotes ==
    \/ TestConfig
    \/ \E c \in 1..MaxClients, s \in Strs : ParliamentarianVotes(c, s, PlainPayloads)
    \/ \E c \in 1..MaxClients, s \in Strs : Parliamentarian(c, s, {"Cope"})

SpecVotes == Init /\ [][NextVotes]_vars

\* the keyword arguments a caller of search_parliamentarians may give
SearchKargs ==
    {lim \o sc :
        lim \in {<< >>} \cup {<<<<"limit", l>>>> : l \in {None} \cup {Some(k) : k \in 1..MaxLimit}},
        sc \in {<< >>} \cup {<<<<"no_score", b>>>> : b \in BOOLEAN}}

\* the rosters the remote service may answer with: lists of distinct names
Rosters ==
    {r \in SeqsUpTo(Noms, MaxRoster) : \A i, j \in DOMAIN r : i # j => r[i] # r[j]}

\* construction, the roster, the search facade, and parliamentarian on the
\* key of the search with defaults
NextSearch ==
    \/ TestConfig
    \/ \E c \in 1..MaxClients : Parlementarians(c, Rosters)
    \/ \E c \in 1..MaxClients, kargs \in SearchKargs : SearchParliamentarians(c, "a", kargs, Rosters)
    \/ \E c \in 1..MaxClients : Parliamentarian(c, "a", {"Cope"})

SpecSearch == Init /\ [][NextSearch]_vars

-----------------------------------------------------------------------------
(* Claims about search_parliamentarians, checked under SpecSearch *)

\* the call that just ended ran the body of search_parliamentarians, hence
\* the matcher, whose answer is last.extracted
SearchRan == last.op = "search_parliamentarians" /\ last.ran

\* the call that just ended named only the query
OnlyQuery == last.op = "search_parliamentarians" /\ last.kargs = << >>

LastLimit == Bound(last.kargs, "limit", None)

\* element i of a search result when scores are excluded (no_score) or not
Element(extracted, i, no_score) == IF no_score THEN extracted[i].rec ELSE extracted[i]

\* C6 - Search output shape policy: when the matcher returns at least one
\* match and the caller gives the score option, limit None yields exactly
\* the first match (bare record if scores are excluded, (record, score) pair
\* if included); a positive limit k yields a list of at most k matches in
\* the matcher's order (descending score), each shaped the same way.  The
\* value is what the cache then holds for the call.
C6_OutputShape ==
    \A b \in BOOLEAN :
        (SearchRan /\ Len(last.extracted) >= 1 /\ <<"no_score", b>> \in Items(last.kargs))
        => /\ last.outcome = "return"
           /\ cache[MemoKey(last.op, last.self, last.args, last.kargs)].val = last.result
           /\ IF LastLimit = None
              THEN last.result = Element(last.extracted, 1, b)
              ELSE /\ last.result.kind = "list"
                   /\ Len(last.result.items) <= LastLimit[1]
                   /\ Len(last.result.items) = Len(last.extracted)
                   /\ \A i \in DOMAIN last.result.items :
                         /\ last.result.items[i] = Element(last.extracted, i, b)
                         /\ (~b /\ i > 1)
                               => last.result.items[i - 1].score >= last.result.items[i].score

\* a search with limit 2 and scores included returned two pairs with
\* different scores
C6_Witness ==
    /\ SearchRan
    /\ Items(last.kargs) = {<<"limit", Some(2)>>, <<"no_score", FALSE>>}
    /\ last.outcome = "return"
    /\ Len(last.result.items) = 2
    /\ last.result.items[1].score > last.result.items[2].score

C8_IndexablePairs ==
    (SearchRan /\ OnlyQuery /\ Len(last.extracted) >= 1)
    => /\ last.outcome = "return"
       /\ last.result.kind = "list"
       /\ Len(last.result.items) >= 1
       /\ last.result.items[1].kind = "tuple"
       /\ last.result.items[1].rec = last.extracted[1].rec

\* C10 - Empty search result: when the matcher yields no match, the search
\* returns an empty list if limit is set; if limit is None it raises
\* (IndexError) instead of returning a value, and nothing is cached for the
\* call.
C10_EmptyResult ==
    (SearchRan /\ Len(last.extracted) = 0)
    => IF LastLimit # None
       THEN /\ last.outcome = "return"
            /\ last.result = ListObj(<< >>)
       ELSE /\ last.outcome = "IndexError"
            /\ last.result = NoValue
            /\ MemoKey(last.op, last.self, last.args, last.kargs) \notin DOMAIN cache

\* a search without limit on an empty roster raised
C10_Witness ==
    /\ SearchRan
    /\ LastLimit = None
    /\ last.outcome = "IndexError"
    /\ cache[MemoKey("parlementarians", last.self, << >>, NoKargs)].val.items = << >>

-----------------------------------------------------------------------------
(* Claims about the Balloting/Vote graph, checked under SpecVotes *)

\* the Vote objects a client produced for a balloting identifier
VotesOf(c, numero) ==
    {v \in DOMAIN votes : votes[v].made_by = c /\ votes[v].scrutin.numero = numero}

\* C1 - Interning invariant: any two Vote objects produced by one client
\* whose payloads carry the same scrutin.numero reference the identical
\* Balloting instance, and the client's dct_all_ballotings binds that
\* identifier to exactly that Balloting, whose numero is the identifier.
C1_Interning ==
    \A v \in DOMAIN votes :
        LET c == votes[v].made_by
            numero == votes[v].scrutin.numero
        IN  /\ numero \in DOMAIN dct_all_ballotings[c]
            /\ dct_all_ballotings[c][numero] = votes[v].balloting
            /\ ballotings[votes[v].balloting].numero = numero
            /\ \A w \in VotesOf(c, numero) : votes[w].balloting = votes[v].balloting

\* two calls of one client produced votes of two parliamentarians on the same
\* balloting; the second call constructed a Balloting that was not interned
C1_Witness ==
    \E v, w \in DOMAIN votes :
        /\ v # w
        /\ votes[v].made_by = votes[w].made_by
        /\ votes[v].scrutin.numero = votes[w].scrutin.numero
        /\ votes[v].parlementaire_slug # votes[w].parlementaire_slug
        /\ nFetch = 2
        /\ Len(ballotings) = 2
        /\ last.op = "parliamentarian_votes" /\ last.ran /\ Len(last.result.items) = 1

\* C2 - Vote-set uniqueness: the size of an interned Balloting's vote set
\* equals the number of distinct (identifier, slug) pairs the client
\* processed for that identifier.
C2_VoteSetUniqueness ==
    \A c \in DOMAIN clients : \A numero \in DOMAIN dct_all_ballotings[c] :
        Cardinality(ballotings[dct_all_ballotings[c][numero]].set_votes)
            = Cardinality({votes[v].parlementaire_slug : v \in VotesOf(c, numero)})

\* C3 - No orphan votes: every Vote object is a member of the vote set of
\* the Balloting it references, which is the one its client interned for the
\* identifier; so the votes of every parliamentarian on a balloting are all in
\* the one shared Balloting's vote set.  The votes a call returns are among
\* them.
C3_NoOrphanVotes ==
    /\ \A v \in DOMAIN votes :
          /\ v \in ballotings[votes[v].balloting].set_votes
          /\ v \in ballotings[dct_all_ballotings[votes[v].made_by][votes[v].scrutin.numero]].set_votes
    /\ \A c \in DOMAIN clients : \A numero \in DOMAIN dct_all_ballotings[c] :
          VotesOf(c, numero) \subseteq ballotings[dct_all_ballotings[c][numero]].set_votes
    /\ (last.op = "parliamentarian_votes" /\ last.outcome = "return"
          /\ last.result.kind = "list")
          => \A i \in DOMAIN last.result.items :
                /\ last.result.items[i] \in DOMAIN votes
                /\ last.result.items[i]
                      \in ballotings[votes[last.result.items[i]].balloting].set_votes

\* a shared Balloting holds the votes of two parliamentarians, recorded by
\* two calls of parliamentarian_votes
C3_Witness ==
    \E b \in DOMAIN ballotings :
        /\ Cardinality(ballotings[b].set_votes) = 2
        /\ \E v, w \in ballotings[b].set_votes :
              votes[v].parlementaire_slug # votes[w].parlementaire_slug
        /\ Cardinality({k \in DOMAIN cache : cache[k].by = "parliamentarian_votes"}) = 2
-----------------------------------------------------------------------------
(* Construction and synthese over every configuration *)

Months == {NoneStr, "201301"}

NextValid ==
    \/ \E pt \in PTypeInputs, lg \in LegislatureInputs : Construct(pt, lg)
    \/ \E c \in 1..MaxClients, month \in Months : Synthese(c, month, Rosters)

SpecValid == Init /\ [][NextValid]_vars

\* the call that just ended is one the validation must reject
Rejected ==
    \/ last.op = "__init__" /\ ~(last.args[1] \in PTypes /\ last.args[2] \in Legislatures)
    \/ /\ last.op = "synthese"
       /\ last.args = <<NoneStr>>
       /\ clients[last.self].legislature = "2012-2017"

\* C9 - Validation precedes I/O: a construction with a ptype outside
\* {depute, senateur} or a legislature outside the four accepted values, and
\* synthese(month=None) on a client of legislature 2012-2017, raise
\* (AssertionError); the step issues no fetch, builds no client and leaves
\* the cache alone.  No other call raises that error.
C9_ValidationBeforeIO ==
    [][/\ Rejected' => /\ last'.outcome = "AssertionError"
                       /\ last'.fetches = 0
                       /\ nFetch' = nFetch
                       /\ clients' = clients
                       /\ cache' = cache
       /\ last'.outcome = "AssertionError" => Rejected' /\ nFetch' = nFetch]_vars

\* synthese(None) raised on a client of legislature 2012-2017 that had
\* fetched a monthly synthesis before
C9_Witness ==
    /\ last.op = "synthese"
    /\ last.outcome = "AssertionError"
    /\ clients[last.self].legislature = "2012-2017"
    /\ nFetch = 1

-----------------------------------------------------------------------------
(* Every memoized operation on one key space *)

\* vote histories of at most one entry
ShortPayloads == {data \in PlainPayloads : Len(data) <= 1}

Memoized ==
    {"parliamentarian", "picture", "search", "parliamentarian_votes", "parlementarians",
     "search_parliamentarians"}

Next ==
    \/ TestConfig
    \/ \E c \in 1..MaxClients, s \in Strs : Parliamentarian(c, s, {"Cope"})
    \/ \E c \in 1..MaxClients, s \in Strs : Picture(c, s)
    \/ \E c \in 1..MaxClients, s \in Strs : Search(c, s)
    \/ \E c \in 1..MaxClients, s \in Strs : ParliamentarianVotes(c, s, ShortPayloads)
    \/ \E c \in 1..MaxClients : Parlementarians(c, Rosters)
    \/ \E c \in 1..MaxClients, s \in Strs, kargs \in SearchKargs :
          SearchParliamentarians(c, s, kargs, Rosters)

Spec == Init /\ [][Next]_vars

\* C4 - Cache idempotence: once a memoized operation has returned for given
\* arguments on a client, its underlying body (the fetch) has run exactly
\* once for them, however many times it was called, and the call returns the
\* value the cache holds for the key.
C4_CacheIdempotence ==
    (last.op \in Memoized /\ last.outcome = "return")
    => /\ RanCount(ran, CallId(last.op, last.self, last.args, last.kargs)) = 1
       /\ last.result = cache[MemoKey(last.op, last.self, last.args, last.kargs)].val

\* C5 - The cache is keyed per operation and per argument signature: a call
\* answered from the cache returns a value that the same operation stored.
C5_KeyedPerOperation ==
    (last.op \in Memoized /\ last.outcome = "return" /\ ~last.ran)
    => cache[MemoKey(last.op, last.self, last.args, last.kargs)].by = last.op

-----------------------------------------------------------------------------
(* Vote histories with malformed entries *)

\* the dict without one of its keys
Without(dct, name) == [k \in DOMAIN dct \ {name} |-> dct[k]]

\* the fields an entry of a vote history is expected to carry
VoteFields == {"scrutin", "numero", "parlementaire_slug", "position"}

\* the entry lacks the field (numero is a key of the embedded scrutin)
Lacks(dict_vote, field) ==
    IF field = "numero"
    THEN Has(dict_vote, "scrutin") /\ ~Has(dict_vote.scrutin, "numero")
    ELSE ~Has(dict_vote, field)

\* a well-formed entry, and the same entry with one field left out by the
\* remote service
VoteDictsOrMalformed ==
    LET whole == CHOOSE e \in VoteDicts({"t1"}) :
                     e.parlementaire_slug = "a" /\ e.scrutin.numero = 1
    IN  {whole}
        \cup {Without(whole, field) : field \in VoteFields \ {"numero"}}
        \cup {[whole EXCEPT !.scrutin = Without(@, "numero")]}

MalformedPayloads == SeqsUpTo(VoteDictsOrMalformed, MaxPayload)

NextMalformed ==
    \/ TestConfig
    \/ \E c \in 1..MaxClients : ParliamentarianVotes(c, "a", MalformedPayloads)

SpecMalformed == Init /\ [][NextMalformed]_vars

\* the call that just ended ran the loop of parliamentarian_votes over a
\* vote history one of whose entries lacks the field
RanOnLacking(field) ==
    /\ last.op = "parliamentarian_votes" /\ last.ran
    /\ \E i \in DOMAIN last.data : Lacks(last.data[i], field)

\* C11 - Malformed vote data: if an entry of the fetched vote history lacks
\* the embedded balloting record, the balloting identifier, the
\* parliamentarian slug or the position, parliamentarian_votes raises instead
\* of returning, and no Vote object in a returned list lacks one of them.
C11_MalformedRejected ==
    /\ \A field \in VoteFields : RanOnLacking(field) => last.outcome # "return"
    /\ (last.op = "parliamentarian_votes" /\ last.outcome = "return")
          => \A i \in DOMAIN last.result.items :
                \A field \in VoteFields \ {"numero"} : Has(votes[last.result.items[i]], field)

\* the entry makes the loop raise
Raises(dict_vote) ==
    \E field \in {"scrutin", "numero", "parlementaire_slug"} : Lacks(dict_vote, field)

\* the first entry of the vote history that makes the loop raise
FirstRaising(data) ==
    CHOOSE k \in DOMAIN data : Raises(data[k]) /\ \A j \in 1..(k - 1) : ~Raises(data[j])

\* the call that just ended raised in the loop of parliamentarian_votes
LoopRaised == last.op = "parliamentarian_votes" /\ last.outcome \in {"KeyError", "AttributeError"}

\* C18 - No rollback on mid-payload failure: when parliamentarian_votes
\* raises at entry k of the fetched vote history, it returns no list and
\* stores no cache entry, but the Votes of the k - 1 entries before it stay
\* registered in their interned Ballotings, and the Balloting of entry k stays
\* interned when the entry carried its identifier and only lacked the slug.
\* A retry that succeeds right after builds a new Vote for every entry of its
\* vote history and adds it to the interned Balloting next to the earlier
\* ones.
C18_NoRollback ==
    [][/\ LoopRaised'
          => LET data == last'.data
                 k == FirstRaising(data)
                 dct == dct_all_ballotings'[last'.self]
             IN  /\ last'.result = NoValue
                 /\ cache' = cache
                 /\ MemoKey(last'.op, last'.self, last'.args, last'.kargs) \notin DOMAIN cache'
                 /\ Len(votes') = Len(votes) + k - 1
                 /\ \A j \in 1..(k - 1) :
                       LET v == Len(votes) + j
                       IN  /\ votes'[v].scrutin = data[j].scrutin
                           /\ votes'[v].balloting = dct[data[j].scrutin.numero]
                           /\ v \in ballotings'[votes'[v].balloting].set_votes
                 /\ Lacks(data[k], "parlementaire_slug")
                       => data[k].scrutin.numero \in DOMAIN dct
       /\ (LoopRaised /\ last'.op = last.op /\ last'.self = last.self
             /\ last'.args = last.args /\ last'.outcome = "return")
          => /\ last'.ran
             /\ Len(votes') = Len(votes) + Len(last'.data)
             /\ \A j \in DOMAIN last'.data :
                   LET v == Len(votes) + j
                       b == dct_all_ballotings'[last'.self][last'.data[j].scrutin.numero]
                   IN  /\ last'.result.items[j] = v
                       /\ votes'[v].balloting = b
                       /\ v \in ballotings'[b].set_votes
                       /\ b \in DOMAIN ballotings
                             => ballotings[b].set_votes \subseteq ballotings'[b].set_votes]_vars

\* a call raised at its second entry after it had registered the first; the
\* retry returned a second Vote for that entry, in the same Balloting
C18_Witness ==
    /\ last.op = "parliamentarian_votes" /\ last.outcome = "return" /\ last.ran
    /\ RanCount(ran, CallId(last.op, last.self, last.args, last.kargs)) = 2
    /\ Len(votes) = 2
    /\ last.result.items = <<2>>
    /\ votes[1].balloting = votes[2].balloting
    /\ VoteHash(votes[1]) = VoteHash(votes[2])
    /\ ballotings[votes[1].balloting].set_votes = {1, 2}

-----------------------------------------------------------------------------
(* Vote histories whose entries disagree on a balloting's title or outcome *)

Sorts == {"adopte", "rejete"}

\* entries of one parliamentarian: balloting 1 as first published, with
\* another title, with another outcome; and another balloting
VoteDictsRetitled ==
    {e \in [scrutin : [numero : Numeros, titre : Titres, sort : Sorts],
            parlementaire_slug : {"a"}, position : {"pour"}] :
        /\ e.scrutin.titre = "t1" \/ e.scrutin.sort = "adopte"
        /\ e.scrutin.numero = 1 \/ (e.scrutin.titre = "t1" /\ e.scrutin.sort = "adopte")}

RetitledPayloads == SeqsUpTo(VoteDictsRetitled, MaxPayload)

NextTitles ==
    \/ TestConfig
    \/ \E c \in 1..MaxClients, s \in Strs : ParliamentarianVotes(c, s, RetitledPayloads)

SpecTitles == Init /\ [][NextTitles]_vars

\* the first Vote object a client built for a balloting identifier
FirstVoteOf(c, numero) ==
    CHOOSE v \in VotesOf(c, numero) : \A w \in VotesOf(c, numero) : v <= w

\* C12 - First-seen wins: the Balloting a client interned for an identifier
\* keeps the title and the outcome of the first payload the client processed
\* for that identifier; every later vote on the identifier references that
\* Balloting, whatever title or outcome its own payload carries.
C12_FirstSeenWins ==
    \A c \in DOMAIN clients : \A numero \in DOMAIN dct_all_ballotings[c] :
        LET b == ballotings[dct_all_ballotings[c][numero]]
            seen == votes[FirstVoteOf(c, numero)].scrutin
        IN  /\ b.titre = seen.titre
            /\ b.sort = seen.sort
            /\ \A v \in VotesOf(c, numero) :
                  votes[v].balloting = dct_all_ballotings[c][numero]

\* a second call processed a payload with another title for the identifier
\* the first call had interned
C12_Witness ==
    \E v, w \in DOMAIN votes :
        /\ votes[v].balloting = votes[w].balloting
        /\ votes[w].scrutin.titre = ballotings[votes[w].balloting].titre
        /\ votes[v].scrutin.titre # ballotings[votes[v].balloting].titre
        /\ last.op = "parliamentarian_votes" /\ last.ran
        /\ last.result.items = <<v>>

-----------------------------------------------------------------------------
(* parliamentarian_votes called from several threads on shared clients *)

\* the vote history of parliamentarian p_slug: every entry carries its slug
VotePayloadsOf(p_slug) ==
    {data \in PlainPayloads : \A i \in DOMAIN data : data[i].parlementaire_slug = p_slug}

RECURSIVE VotesToCome(_, _)
\* entries the calls in progress on the threads ts have still to record
VotesToCome(of, ts) ==
    IF ts = {} THEN 0
    ELSE LET t == CHOOSE x \in ts : TRUE
         IN  (IF of[t].pc \in {"get", "set", "vote"} THEN Len(of[t].data) - of[t].i + 1 ELSE 0)
             + VotesToCome(of, ts \ {t})

\* thread t calls self.parliamentarian_votes(p_slug): aux finds the key and
\* returns its value at once, or misses, and then the body fetches the vote
\* history and reaches its loop.  A thread calls once.
ThreadCall(t, self, p_slug) ==
    /\ threads.of[t].pc = "idle"
    /\ self \in DOMAIN clients
    /\ \/ /\ Cached(cache, "parliamentarian_votes", self, <<p_slug>>, NoKargs)
          /\ last' = Outcome("parliamentarian_votes", self, <<p_slug>>, NoKargs, FALSE, "return",
                             cache[MemoKey("parliamentarian_votes", self, <<p_slug>>, NoKargs)].val, 0)
          /\ threads' = [threads EXCEPT !.of[t].pc = "done"]
          /\ UNCHANGED <<nFetch, ran>>
       \/ /\ MemoMiss("parliamentarian_votes", self, <<p_slug>>, NoKargs, 1)
          /\ \E data \in VotePayloadsOf(p_slug) :
                /\ Len(votes) + VotesToCome(threads.of, DOMAIN threads.of) + Len(data)
                      <= MaxVotes
                /\ threads' = [threads EXCEPT !.of[t] =
                                  [pc |-> IF data = << >> THEN "return" ELSE "get",
                                   self |-> self, p_slug |-> p_slug, data |-> data, i |-> 1,
                                   lst |-> << >>, found |-> 0]]
          /\ nFetch' = nFetch + 1
          /\ ran' = Entered(ran, "parliamentarian_votes", self, <<p_slug>>, NoKargs)
          /\ UNCHANGED last
    /\ UNCHANGED <<clients, dct_all_ballotings, ballotings, votes, cache>>

\* thread t evaluates self.dct_all_ballotings.get(numero, Balloting(...)) for
\* its current entry: a Balloting is constructed, the lookup answers the
\* interned one or that one.  Callers that serialise the interning step take
\* their lock here.
ThreadGet(t) ==
    LET th == threads.of[t]
        dict_balloting == th.data[th.i].scrutin
        heapB1 == Append(ballotings, BallotingInit(dict_balloting))
    IN  /\ th.pc = "get"
        /\ threads.locking => threads.holder = ""
        /\ ballotings' = heapB1
        /\ threads' = [threads EXCEPT
                          !.of[t].pc = "set",
                          !.of[t].found = DictGet(dct_all_ballotings[th.self],
                                                  dict_balloting.numero, Len(heapB1)),
                          !.holder = IF threads.locking THEN t ELSE ""]
        /\ UNCHANGED <<clients, dct_all_ballotings, votes, cache, nFetch, ran, last>>

\* thread t assigns what the lookup answered to balloting and to
\* self.dct_all_ballotings[numero]; a lock taken for the step is released
ThreadSet(t) ==
    LET th == threads.of[t]
    IN  /\ th.pc = "set"
        /\ dct_all_ballotings' =
              [dct_all_ballotings EXCEPT
                  ![th.self] = DictSet(@, th.data[th.i].scrutin.numero, th.found)]
        /\ threads' = [threads EXCEPT !.of[t].pc = "vote", !.holder = ""]
        /\ UNCHANGED <<clients, ballotings, votes, cache, nFetch, ran, last>>

\* thread t runs Vote(dict_vote, balloting) and lst_votes.append(vote_obj),
\* then goes to its next entry or leaves the loop
ThreadVote(t) ==
    LET th == threads.of[t]
        heapV1 == Append(votes, [made_by |-> th.self]
                                   @@ VoteInit(th.data[th.i], ballotings, th.found))
    IN  /\ th.pc = "vote"
        /\ votes' = heapV1
        /\ ballotings' = AddVote(ballotings, heapV1, th.found, Len(heapV1))
        /\ threads' = [threads EXCEPT
                          !.of[t].pc = IF th.i = Len(th.data) THEN "return" ELSE "get",
                          !.of[t].i = th.i + 1,
                          !.of[t].lst = Append(th.lst, Len(heapV1))]
        /\ UNCHANGED <<clients, dct_all_ballotings, cache, nFetch, ran, last>>

\* thread t returns lst_votes to aux, which stores it under the key and
\* returns it
ThreadReturn(t) ==
    LET th == threads.of[t]
    IN  /\ th.pc = "return"
        /\ cache' = Stored(cache, "parliamentarian_votes", th.self, <<th.p_slug>>, NoKargs,
                           ListObj(th.lst))
        /\ last' = [Outcome("parliamentarian_votes", th.self, <<th.p_slug>>, NoKargs, TRUE,
                            "return", ListObj(th.lst), 1)
                       EXCEPT !.data = th.data]
        /\ threads' = [threads EXCEPT !.of[t].pc = "done"]
        /\ UNCHANGED <<clients, dct_all_ballotings, ballotings, votes, nFetch, ran>>

\* the callers either serialise the interning step of every call with a
\* lock of theirs, or do not
InitThreads ==
    \E locking \in BOOLEAN :
        /\ threads = [NoThreads EXCEPT !.locking = locking]
        /\ clients = << >>
        /\ dct_all_ballotings = << >>
        /\ ballotings = << >>
        /\ votes = << >>
        /\ cache = << >>
        /\ nFetch = 0
        /\ ran = << >>
        /\ last = [op |-> "start", self |-> 0, args |-> << >>, kargs |-> << >>, ran |-> FALSE,
                   outcome |-> "return", result |-> NoValue, fetches |-> 0, extracted |-> << >>,
                   data |-> << >>]

NextThreads ==
    \/ TestConfig
    \/ \E t \in Threads, c \in 1..MaxClients, s \in Strs : ThreadCall(t, c, s)
    \/ \E t \in Threads : ThreadGet(t)
    \/ \E t \in Threads : ThreadSet(t)
    \/ \E t \in Threads : ThreadVote(t)
    \/ \E t \in Threads : ThreadReturn(t)

SpecThreads == InitThreads /\ [][NextThreads]_vars

\* two Vote objects of one client on one balloting identifier that reference
\* different Balloting objects
SplitBalloting(v, w) ==
    /\ votes[v].made_by = votes[w].made_by
    /\ votes[v].scrutin.numero = votes[w].scrutin.numero
    /\ votes[v].balloting # votes[w].balloting

\* C13 - Concurrent interning: when the callers make the lookup-construct-
\* insert step of parliamentarian_votes atomic, no two Vote objects of a
\* client with the same balloting identifier reference different Balloting
\* objects, however the calls interleave; without that (the witness), two
\* interleaved calls for different slugs on one client reach such a state.
C13_AtomicInterning ==
    threads.locking => \A v, w \in DOMAIN votes : ~SplitBalloting(v, w)

\* two calls for different slugs on one client, not serialised, interleaved
\* on an identifier not yet interned: their votes reference two Ballotings
C13_Witness ==
    /\ ~threads.locking
    /\ \E v, w \in DOMAIN votes :
          /\ SplitBalloting(v, w)
          /\ votes[v].parlementaire_slug # votes[w].parlementaire_slug
    /\ \A t \in Threads : threads.of[t].pc = "done"
    /\ threads.of["A"].self = threads.of["B"].self
    /\ threads.of["A"].p_slug # threads.of["B"].p_slug

-----------------------------------------------------------------------------
(* The same call written in different ways *)

\* the ways to write picture(slug_name, pixels) with both arguments named
PictureKargs(slug_name, pixels) ==
    {<<<<"slug_name", slug_name>>, <<"pixels", pixels>>>>,
     <<<<"pixels", pixels>>, <<"slug_name", slug_name>>>>}

NextKargs ==
    \/ TestConfig
    \/ \E c \in 1..MaxClients : ParliamentarianVotes(c, "a", ShortPayloads)
    \/ \E c \in 1..MaxClients : ParliamentarianVotesByName(c, "a", ShortPayloads)
    \/ \E c \in 1..MaxClients, kargs \in PictureKargs("a", "512") : PictureCall(c, << >>, kargs)

SpecKargs == Init /\ [][NextKargs]_vars

\* the positional parameters of the memoized operations, after self
Params(f) ==
    IF f = "parliamentarian_votes" THEN <<"p_slug">>
    ELSE IF f = "picture" THEN <<"slug_name", "pixels">>
    ELSE << >>

\* the values a call binds to the parameters of f, however it passes them
Bindings(f, args, kargs) ==
    {<<Params(f)[i], args[i]>> : i \in DOMAIN args} \cup Items(kargs)

\* C14 as claimed - Argument normalization: a memoized operation runs its
\* body (the fetch) only if no earlier call of it on the client stored a
\* value for the same values of its parameters, whether they were passed
\* positionally or by name and in whatever order.
C14_ArgumentNormalization ==
    [][(last'.op \in Memoized /\ last'.ran)
          => ~\E k \in DOMAIN cache :
                /\ cache[k].by = last'.op
                /\ k[1] = last'.self
                /\ Bindings(last'.op, k[2], k[3])
                      = Bindings(last'.op, last'.args, last'.kargs)]_vars

\* C14 as amended - a memoized operation runs its body (the fetch) exactly
\* when the cache holds no value stored by a call on the same client with the
\* same positional arguments and the same named arguments, in whatever order
\* these were named.  A value passed by name and the same value passed
\* positionally are different keys, so each of the two calls runs the fetch.
C14_KeyedByCallShape ==
    [][last'.op \in Memoized
          => (last'.ran
                <=> ~\E k \in DOMAIN cache :
                       /\ k[1] = last'.self
                       /\ k[2] = last'.args
                       /\ Items(k[3]) = Items(last'.kargs))]_vars

\* picture(pixels='512', slug_name='a') was answered from the value
\* picture(slug_name='a', pixels='512') had stored
C14_Witness ==
    /\ last.op = "picture" /\ ~last.ran
    /\ last.kargs = <<<<"pixels", "512">>, <<"slug_name", "a">>>>
    /\ last.result = NdArray("a", "512")
    /\ RanCount(ran, CallId(last.op, last.self, last.args, last.kargs)) = 0
    /\ RanCount(ran, CallId(last.op, last.self, last.args,
                            <<<<"slug_name", "a">>, <<"pixels", "512">>>>)) = 1

-----------------------------------------------------------------------------
(* Fetches that fail *)

\* a call of a memoized operation with one fetch misses the cache and its
\* requests.get raises: nothing in the body runs after it
FetchFails(f, self, args, kargs) ==
    /\ self \in DOMAIN clients
    /\ MemoMiss(f, self, args, kargs, 1)
    /\ MemoRaise(f, self, args, kargs, "ConnectionError", 1)
    /\ UNCHANGED <<clients, dct_all_ballotings, ballotings, votes, threads>>

NextFail ==
    \/ TestConfig
    \/ \E c \in 1..MaxClients, s \in Strs : Parliamentarian(c, s, {"Cope"})
    \/ \E c \in 1..MaxClients, s \in Strs : ParliamentarianVotes(c, s, ShortPayloads)
    \/ \E c \in 1..MaxClients, s \in Strs, f \in {"parliamentarian", "parliamentarian_votes"} :
          FetchFails(f, c, <<s>>, NoKargs)

SpecFail == Init /\ [][NextFail]_vars

\* the call that just ended is a memoized operation whose fetch failed
FetchFailed == last.op \in Memoized /\ last.outcome = "ConnectionError"

\* C15 - Failed fetch: when the fetch of a memoized operation fails, the
\* call raises after exactly one fetch attempt, returns no value and leaves
\* the cache as it was, with no entry under the call's key; the next call
\* with the same arguments runs the body and fetches again.
C15_FailedFetch ==
    [][/\ FetchFailed'
          => /\ last'.ran /\ last'.fetches = 1 /\ nFetch' = nFetch + 1
             /\ last'.result = NoValue
             /\ cache' = cache
             /\ MemoKey(last'.op, last'.self, last'.args, last'.kargs) \notin DOMAIN cache'
       /\ (FetchFailed /\ last'.op = last.op /\ last'.self = last.self
             /\ last'.args = last.args /\ last'.kargs = last.kargs)
          => last'.ran /\ nFetch' = nFetch + 1]_vars

\* a call returned the value of its second fetch, after the first had failed
C15_Witness ==
    /\ last.op \in Memoized /\ last.outcome = "return" /\ last.ran
    /\ RanCount(ran, CallId(last.op, last.self, last.args, last.kargs)) = 2
    /\ nFetch = 2
    /\ Cardinality(DOMAIN cache) = 1

-----------------------------------------------------------------------------
(* Allocation of Ballotings, checked under SpecVotes *)

\* the Balloting objects some client's interning map binds
Interned ==
    UNION {{dct_all_ballotings[c][numero] : numero \in DOMAIN dct_all_ballotings[c]} :
              c \in DOMAIN clients}

\* C16 - Single allocation: every Balloting object ever constructed is the
\* one a client interned for its identifier, so that for any number of votes
\* sharing an identifier exactly one Balloting is constructed and a vote on
\* an interned identifier constructs none.
C16_SingleAllocation ==
    /\ \A b \in DOMAIN ballotings : b \in Interned
    /\ (last.op = "parliamentarian_votes" /\ last.ran /\ last.outcome = "return")
          => Len(ballotings)
               <= Cardinality({<<votes[v].made_by, votes[v].scrutin.numero>> : v \in DOMAIN votes})

-----------------------------------------------------------------------------
(* Growth of the cache and of the interning maps, checked under SpecTitles *)

\* every key of the map old is a key of new with the same value
Extends(new, old) ==
    /\ DOMAIN old \subseteq DOMAIN new
    /\ \A k \in DOMAIN old : new[k] = old[k]

\* C17 - Monotonic growth: over any sequence of operations the keys of the
\* cache and of every client's interning map only grow and the value bound
\* to an existing key is never replaced; a call whose key the cache holds
\* does not run the body and returns the value held.
C17_MonotonicGrowth ==
    [][/\ Extends(cache', cache)
       /\ Extends(clients', clients)
       /\ \A c \in DOMAIN dct_all_ballotings :
             Extends(dct_all_ballotings'[c], dct_all_ballotings[c])
       /\ (/\ last'.op \in Memoized
           /\ MemoKey(last'.op, last'.self, last'.args, last'.kargs) \in DOMAIN cache)
          => /\ ~last'.ran
             /\ last'.result = cache[MemoKey(last'.op, last'.self, last'.args, last'.kargs)].val
             /\ nFetch' = nFetch]_vars

\* a call was answered from the cache after another call had added a key to
\* the cache and a second identifier to the client's interning map
C17_Witness ==
    /\ last.op = "parliamentarian_votes" /\ ~last.ran
    /\ Cardinality(DOMAIN cache) = 2
    /\ Cardinality(DOMAIN dct_all_ballotings[last.self]) = 2
    /\ Len(last.result.items) = 1

-----------------------------------------------------------------------------
(* Clients sharing the class-level cache, checked under SpecVotes *)

\* the Balloting objects the interning map of client c binds
InternedBy(c) == {dct_all_ballotings[c][numero] : numero \in DOMAIN dct_all_ballotings[c]}

\* the client a returned value was built for: a Parliamentarian holds its
\* api, the Votes of a list the client whose call built them
BuiltFor(value, c) ==
    IF value.kind = "Parliamentarian" THEN value.api = c
    ELSE IF value.kind = "list"
         THEN \A i \in DOMAIN value.items : votes[value.items[i]].made_by = c
         ELSE TRUE

\* C19 - Per-client isolation: although all clients share the class-level
\* cache, a call on a client never returns a value that a call on another
\* client stored, also when both clients have the same configuration; the
\* interning maps of two clients bind no Balloting in common and every Vote
\* references a Balloting of the client that built it.
C19_ClientIsolation ==
    /\ (last.op \in Memoized /\ last.outcome = "return") => BuiltFor(last.result, last.self)
    /\ \A c, d \in DOMAIN clients : c # d => InternedBy(c) \cap InternedBy(d) = {}
    /\ \A v \in DOMAIN votes : votes[v].balloting \in InternedBy(votes[v].made_by)

\* two clients of the same configuration each ran parliamentarian_votes('a')
\* and each interned its own Balloting for the same identifier
C19_Witness ==
    /\ Len(clients) = 2 /\ clients[1] = clients[2]
    /\ last.op = "parliamentarian_votes" /\ last.self = 2 /\ last.ran /\ last.args = <<"a">>
    /\ MemoKey(last.op, 1, last.args, last.kargs) \in DOMAIN cache
    /\ MemoKey(last.op, 2, last.args, last.kargs) \in DOMAIN cache
    /\ \E numero \in Numeros :
          /\ numero \in DOMAIN dct_all_ballotings[1] \cap DOMAIN dct_all_ballotings[2]
          /\ dct_all_ballotings[1][numero] # dct_all_ballotings[2][numero]
====
